---- MODULE Spec2Model ----
(***************************************************************************)
(* antec-flux-pro-display: CPU/GPU temperatures polled from sensor files   *)
(* and sent as 12-byte frames over a USB interrupt endpoint.               *)
(*                                                                         *)
(* Modelled: the f32 arithmetic of the payload codec (usb.rs), the sensor  *)
(* reader and the CPU sensor locator (cpu.rs), the GPU backend selection   *)
(* (gpu.rs), the settings validation (config.rs), the USB session          *)
(* (usb.rs) and the control loop of main (main.rs).                        *)
(***************************************************************************)
EXTENDS Integers, Sequences, FiniteSets, TLC

\* Option<T>: None is the empty sequence, Some(v) the one-element sequence.
None == <<>>
Some(v) == <<v>>
IsSome(o) == o # <<>>
Unwrap(o) == o[1]

(***************************************************************************)
(* f32.  A finite value is [sign, man, exp] = (-1)^sign * man * 2^exp,     *)
(* either zero (man = 0, exp = 0) or normal (2^23 <= man < 2^24).  The     *)
(* values the model meets stay far from the subnormal and overflow ranges. *)
(* Every intermediate integer stays below 2^31.                            *)
(***************************************************************************)
RECURSIVE Pow2(_)
Pow2(n) == IF n = 0 THEN 1 ELSE 2 * Pow2(n - 1)

MantBits == 24

RECURSIVE BitLen(_)
BitLen(n) == IF n = 0 THEN 0 ELSE 1 + BitLen(n \div 2)

F32Zero(sign) == [sign |-> sign, man |-> 0, exp |-> 0]

\* Round-toward-zero variant of F32Round: drops the discarded bits.
F32RoundTowardZero(sign, q, e, sticky) ==
    IF q = 0 THEN F32Zero(sign)
    ELSE LET n == BitLen(q) IN
         IF n <= MantBits
         THEN [sign |-> sign, man |-> q * Pow2(MantBits - n), exp |-> e - (MantBits - n)]
         ELSE [sign |-> sign, man |-> q \div Pow2(n - MantBits), exp |-> e + (n - MantBits)]

\* The correctly rounded (nearest, ties to even) f32 of q * 2^e, q > 0 an
\* integer; sticky says that the exact value lies strictly above q * 2^e
\* (and below (q+1) * 2^e).
F32Round(sign, q, e, sticky) ==
    IF q = 0 THEN F32Zero(sign)
    ELSE LET n == BitLen(q) IN
         IF n <= MantBits
         THEN [sign |-> sign, man |-> q * Pow2(MantBits - n), exp |-> e - (MantBits - n)]
         ELSE LET sh   == n - MantBits
                  keep == q \div Pow2(sh)
                  rem  == q % Pow2(sh)
                  half == Pow2(sh - 1)
                  up   == rem > half \/ (rem = half /\ (sticky \/ keep % 2 = 1))
                  m    == IF up THEN keep + 1 ELSE keep
              IN IF m = Pow2(MantBits)
                 THEN [sign |-> sign, man |-> Pow2(MantBits - 1), exp |-> e + sh + 1]
                 ELSE [sign |-> sign, man |-> m, exp |-> e + sh]

\* An integer as f32 (`as f32`, or the parse of an integer text); exact for
\* |i| < 2^24, rounded above.
F32FromInt(i) ==
    IF i < 0 THEN F32Round(1, -i, 0, FALSE) ELSE F32Round(0, i, 0, FALSE)

\* Binary long division: s further quotient bits of (q + r/d).
RECURSIVE DivBits(_, _, _, _)
DivBits(q, r, d, s) ==
    IF s = 0 THEN [q |-> q, r |-> r]
    ELSE DivBits(2 * q + (IF 2 * r >= d THEN 1 ELSE 0), (2 * r) % d, d, s - 1)

\* Bits of quotient computed before rounding: the 24 kept and two more
\* (the remainder gives the sticky bit).
QuotBits == 26

\* x / d for a small positive integer divisor d <= 2^23 (10.0 and 1000.0
\* are exact f32 values), correctly rounded.
F32DivInt(x, d) ==
    IF x.man = 0 THEN x
    ELSE LET s  == QuotBits - BitLen(x.man \div d)
             qr == DivBits(x.man \div d, x.man % d, d, s)
         IN F32Round(x.sign, qr.q, x.exp - s, qr.r # 0)

\* x * k for a small positive integer k, correctly rounded.
F32MulInt(x, k) ==
    IF x.man = 0 THEN x ELSE F32Round(x.sign, x.man * k, x.exp, FALSE)

RECURSIVE Pow2Mod(_, _)
Pow2Mod(n, d) == IF n = 0 THEN 1 % d ELSE (2 * Pow2Mod(n - 1, d)) % d

\* x % d (fmod: exact, sign of the dividend) for a small positive integer d.
F32RemInt(x, d) ==
    IF x.man = 0 THEN x
    ELSE IF x.exp >= 0
         THEN F32Round(x.sign, ((x.man % d) * Pow2Mod(x.exp, d)) % d, 0, FALSE)
         ELSE LET k == -x.exp IN
              IF k >= MantBits THEN x
              ELSE F32Round(x.sign, x.man % (d * Pow2(k)), x.exp, FALSE)

\* The integer part of |x|, reduced modulo 256 (x.exp >= 0 is an integer
\* multiple of 2^exp).
TruncMod256(x) ==
    IF x.man = 0 THEN 0
    ELSE IF x.exp >= 0 THEN ((x.man % 256) * Pow2Mod(x.exp, 256)) % 256
         ELSE IF -x.exp >= MantBits THEN 0
              ELSE (x.man \div Pow2(-x.exp)) % 256

\* A wrapping float-to-u8 conversion: the truncated integer modulo 256.
F32ToU8Wrapping(x) ==
    IF x.sign = 1 THEN (256 - TruncMod256(x)) % 256 ELSE TruncMod256(x)

\* `x as u8`: truncation toward zero, saturating at 0 and 255.
F32ToU8(x) ==
    IF x.sign = 1 \/ x.man = 0 THEN 0
    ELSE IF x.exp >= 0 THEN 255
         ELSE IF -x.exp >= MantBits THEN 0
              ELSE LET v == x.man \div Pow2(-x.exp) IN IF v > 255 THEN 255 ELSE v

(***************************************************************************)
(* Sensor reader (cpu.rs read_temp; gpu.rs AmdGpu::temp, IntelGpu::temp).  *)
(* fs::read_to_string gives None (an I/O error) or Some(text); a text is   *)
(* an integer of millidegrees or something f32::from_str rejects.          *)
(***************************************************************************)
Unreadable == None
Garbage == Some([num |-> FALSE, val |-> 0])
Milli(m) == Some([num |-> TRUE, val |-> m])

read_temp(content) ==
    IF ~IsSome(content) THEN None
    ELSE IF ~Unwrap(content).num THEN None
         ELSE Some(F32DivInt(F32FromInt(Unwrap(content).val), 1000))

(***************************************************************************)
(* Payload codec (usb.rs).                                                 *)
(***************************************************************************)
Sentinel == 238

\* An encoding whose second byte lacks the % 10.0.
encode_temperature_no_rem(temp) ==
    IF IsSome(temp)
    THEN LET t      == Unwrap(temp)
             ones   == F32ToU8(F32DivInt(t, 10))
             tens   == F32ToU8(t)
             tenths == F32ToU8(F32RemInt(F32MulInt(t, 10), 10))
         IN <<ones, tens, tenths>>
    ELSE <<Sentinel, Sentinel, Sentinel>>

encode_temperature(temp) ==
    IF IsSome(temp)
    THEN LET t      == Unwrap(temp)
             ones   == F32ToU8(F32DivInt(t, 10))
             tens   == F32ToU8(F32RemInt(t, 10))
             tenths == F32ToU8(F32RemInt(F32MulInt(t, 10), 10))
         IN <<ones, tens, tenths>>
    ELSE <<Sentinel, Sentinel, Sentinel>>

Header == <<85, 170, 1, 1, 6>>

RECURSIVE SumSeq(_)
SumSeq(s) == IF s = <<>> THEN 0 ELSE Head(s) + SumSeq(Tail(s))

\* A checksum that loses the 8-bit wraparound.
ChecksumNoWrap(bytes) == SumSeq(bytes)

\* fold(0u8, wrapping_add) over the first 11 bytes.
Checksum(bytes) == SumSeq(bytes) % 256

generate_payload(cpu_temp, gpu_temp) ==
    LET body == Header \o encode_temperature(cpu_temp) \o encode_temperature(gpu_temp)
    IN body \o <<Checksum(body)>>

(***************************************************************************)
(* Settings (config.rs).                                                   *)
(***************************************************************************)
DefaultPollingInterval == 1000
MinPollingInterval == 100
MaxPollingInterval == 60000

\* A sensor path: directory prefix, index, file name.
Path(dir, n, file) == [dir |-> dir, n |-> n, file |-> file]

ConfigDefault == [cpu_device |-> None, polling_interval |-> DefaultPollingInterval]

\* validated() without the upper limit.
validatedNoMax(c) ==
    [polling_interval |->
        IF c.polling_interval < MinPollingInterval THEN MinPollingInterval
        ELSE c.polling_interval,
     cpu_device |-> IF IsSome(c.cpu_device) /\ Unwrap(c.cpu_device).valid
                    THEN c.cpu_device ELSE None]

\* Config::validated.  A configured cpu_device carries what the checks of
\* lines 50-52 find: valid = under /sys/, no "..", exists.
validated(c) ==
    [polling_interval |->
        IF c.polling_interval < MinPollingInterval THEN MinPollingInterval
        ELSE IF c.polling_interval > MaxPollingInterval THEN MaxPollingInterval
        ELSE c.polling_interval,
     cpu_device |-> IF IsSome(c.cpu_device) /\ Unwrap(c.cpu_device).valid
                    THEN c.cpu_device ELSE None]

(***************************************************************************)
(* USB session (usb.rs).                                                   *)
(***************************************************************************)
VENDOR_ID == 8226
PRODUCT_ID == 1314
FallbackEndpoint == 3

RECURSIVE Flatten(_)
Flatten(ss) == IF ss = <<>> THEN <<>> ELSE Head(ss) \o Flatten(Tail(ss))

\* config.interfaces().flat_map(descriptors).flat_map(endpoint_descriptors)
Endpoints(cfg) == Flatten(Flatten(cfg))

IsInterruptOut(ep) == ep.transfer = "Interrupt" /\ ep.direction = "Out"

\* A discovery that takes the first OUT endpoint whatever its transfer type.
FindEndpointAnyOut(descriptor) ==
    IF ~IsSome(descriptor) THEN FallbackEndpoint
    ELSE LET eps == Endpoints(Unwrap(descriptor))
             hit == {i \in 1..Len(eps) : eps[i].direction = "Out"}
         IN IF hit = {} THEN FallbackEndpoint
            ELSE eps[CHOOSE i \in hit : \A j \in hit : i <= j].address

\* .find(Interrupt && Out).map(address), unwrap_or(0x03); descriptor is the
\* result of config_descriptor(0).ok().
FindEndpoint(descriptor) ==
    IF ~IsSome(descriptor) THEN FallbackEndpoint
    ELSE LET eps == Endpoints(Unwrap(descriptor))
             hit == {i \in 1..Len(eps) : IsInterruptOut(eps[i])}
         IN IF hit = {} THEN FallbackEndpoint
            ELSE eps[CHOOSE i \in hit : \A j \in hit : i <= j].address

\* A visibility test that compares the vendor alone.
device_visible_vendor_only(list) ==
    IF ~IsSome(list) THEN FALSE
    ELSE \E d \in Unwrap(list) : IsSome(d) /\ Unwrap(d).vendor_id = VENDOR_ID

\* rusb::devices() gives None (error) or the devices, each with its device
\* descriptor (None when it cannot be read).
device_visible(list) ==
    IF ~IsSome(list) THEN FALSE
    ELSE \E d \in Unwrap(list) :
            IsSome(d) /\ Unwrap(d).vendor_id = VENDOR_ID
                      /\ Unwrap(d).product_id = PRODUCT_ID

\* UsbDevice::open on the outcomes u of the libusb calls.
UsbDevice_open(u) ==
    IF u.handle
    THEN IF u.claim
         THEN [ok |-> TRUE, error |-> "", endpoint |-> FindEndpoint(u.descriptor)]
         ELSE [ok |-> FALSE, error |-> "Error claiming interface", endpoint |-> 0]
    ELSE IF device_visible(u.list)
         THEN [ok |-> FALSE, error |-> "Permission denied accessing USB device",
               endpoint |-> 0]
         ELSE [ok |-> FALSE, error |-> "USB device not found", endpoint |-> 0]

\* self.endpoint
WriteEndpoint(dev) == Unwrap(dev).endpoint

\* A send_payload that propagates the write error.
AfterWriteAbort(result) == IF result = "Ok" THEN "returned" ELSE "failed"

\* send_payload after write_interrupt: an Err is printed, and it returns.
AfterWrite(result) == "returned"

(***************************************************************************)
(* CPU sensor locator (cpu.rs).                                            *)
(***************************************************************************)
HwmonDir == "/sys/class/hwmon/hwmon"
ThermalZone0 == Path("/sys/class/thermal/thermal_zone", 0, "temp")
Hwmon0Input == Path(HwmonDir, 0, "temp1_input")

\* str::trim on the label texts of the model.
Trim(text) ==
    CASE text = "Tctl\n" -> "Tctl"
      [] text = " Tctl " -> "Tctl"
      [] text = "Tdie\n" -> "Tdie"
      [] OTHER -> text

Fallbacks(fs) ==
    IF fs.thermal_zone0 THEN Some(ThermalZone0)
    ELSE IF fs.hwmon0_input THEN Some(Hwmon0Input)
    ELSE None

\* The for loop over read_dir's entries, from entry i on.
RECURSIVE ScanHwmon(_, _, _)
ScanHwmon(entries, i, fs) ==
    IF i > Len(entries) THEN Fallbacks(fs)
    ELSE IF ~IsSome(entries[i]) THEN None                    \* hwmon.ok()?
    ELSE LET e == Unwrap(entries[i]) IN
         IF IsSome(e.temp1_label) /\ Trim(Unwrap(e.temp1_label)) = "Tctl"
         THEN Some(Path(HwmonDir, e.n, "temp1_input"))
         ELSE ScanHwmon(entries, i + 1, fs)

\* fs.hwmon: read_dir("/sys/class/hwmon") as None (error) or the entries in
\* the order the directory yields them, each None (error) or a device.
default_cpu_device(fs) ==
    IF ~IsSome(fs.hwmon) THEN None                           \* read_dir(..).ok()?
    ELSE ScanHwmon(Unwrap(fs.hwmon), 1, fs)

(***************************************************************************)
(* GPU backend (gpu.rs).                                                   *)
(***************************************************************************)
\* A probe chain that tries Intel before AMD.
get_available_gpu_intel_first(features, probes) ==
    IF "nvidia" \in features /\ probes.nvidia THEN "Nvidia"
    ELSE IF "intel" \in features /\ probes.intel THEN "Intel"
    ELSE IF "amd" \in features /\ probes.amd THEN "Amd"
    ELSE "Unknown"

\* features: the cargo features compiled in; probes: whether try_get_*_gpu
\* would return Ok.
get_available_gpu(features, probes) ==
    IF "nvidia" \in features /\ probes.nvidia THEN "Nvidia"
    ELSE IF "amd" \in features /\ probes.amd THEN "Amd"
    ELSE IF "intel" \in features /\ probes.intel THEN "Intel"
    ELSE "Unknown"

\* NvidiaGpu::temp: the NVML query gives None (error) or Some(degrees: u32).
NvidiaGpu_temp(query) ==
    IF IsSome(query) THEN Some(F32FromInt(Unwrap(query))) ELSE None

\* AvailableGpu::temp; reading is what the backend's source yields now.
AvailableGpu_temp(variant, reading) ==
    CASE variant = "Nvidia" -> NvidiaGpu_temp(reading.nvml)
      [] variant = "Amd"    -> read_temp(reading.file)
      [] variant = "Intel"  -> read_temp(reading.file)
      [] OTHER              -> None

(***************************************************************************)
(* The program state.                                                      *)
(***************************************************************************)
VARIABLES
    pc,        \* where main is
    input,     \* what the startup step just taken observed of its environment
    config,    \* the settings record
    running,   \* the AtomicBool
    handler,   \* whether the Ctrl-C handler is installed
    device,    \* Option<UsbDevice>: its cached endpoint
    cpu,       \* Option<String>: the CPU sensor path
    gpu,       \* the AvailableGpu variant
    payload,   \* the frame most recently built by generate_payload
    write,     \* Option: the most recent write_interrupt (endpoint, ok, final)
    sent,      \* counts of writes: poll frames, final frames, failures, polls after the stop
    slept,     \* the duration of the most recent sleep, 0 before the first
    error      \* Option: the error main returned

vars == <<pc, input, config, running, handler, device, cpu, gpu, payload, write,
          sent, slept, error>>

(***************************************************************************)
(* Bounds and input sets.                                                  *)
(***************************************************************************)
MaxPolls == 2          \* poll cycles per run
MaxHwmon == 2          \* entries of /sys/class/hwmon
MaxTenths == 999       \* codec inputs 0.0 .. MaxTenths/10 in steps of 0.1
MaxOver == 40          \* codec inputs beyond either end of the u8 range

IntervalInputs == {0, 1, 99, 100, 1000, 60000, 60001, 100000}

OverridePath == Path("/sys/devices/platform/coretemp.0/hwmon/hwmon", 3, "temp2_input")
CpuDeviceInputs ==
    {None, Some([path |-> OverridePath, valid |-> TRUE]),
           Some([path |-> OverridePath, valid |-> FALSE])}

ConfigInputs ==
    {[stage |-> "config", file |-> f, polling_interval |-> 0, cpu_device |-> None] :
        f \in {"missing", "malformed"}}
    \cup {[stage |-> "config", file |-> "ok", polling_interval |-> v, cpu_device |-> d] :
            v \in IntervalInputs, d \in CpuDeviceInputs}

Ep(t, d, a) == [transfer |-> t, direction |-> d, address |-> a]

\* Configuration descriptors: interfaces, their alternate settings, their endpoints.
Descriptors ==
    {None,
     Some(<<>>),
     Some(<< << <<Ep("Interrupt", "In", 129), Ep("Interrupt", "Out", 4)>> >> >>),
     Some(<< << <<Ep("Bulk", "Out", 1), Ep("Interrupt", "In", 130)>> >> >>),
     Some(<< << <<Ep("Bulk", "Out", 1)>>, <<Ep("Interrupt", "In", 130)>> >>,
             << <<>>, <<Ep("Interrupt", "Out", 4), Ep("Interrupt", "Out", 5)>> >> >>),
     Some(<< << <<Ep("Interrupt", "Out", 3), Ep("Interrupt", "Out", 2)>> >> >>)}

Dev(v, p) == Some([vendor_id |-> v, product_id |-> p])

DeviceLists ==
    {None} \cup {Some(l) : l \in SUBSET {None, Dev(VENDOR_ID, PRODUCT_ID),
                                         Dev(VENDOR_ID, 1), Dev(7531, PRODUCT_ID)}}

UsbInputs ==
    {[stage |-> "open", handle |-> FALSE, list |-> l, kernel_driver |-> "inactive",
      detach |-> TRUE, claim |-> TRUE, descriptor |-> None] : l \in DeviceLists}
    \cup {[stage |-> "open", handle |-> TRUE, list |-> None, kernel_driver |-> k,
           detach |-> d, claim |-> FALSE, descriptor |-> None] :
            k \in {"active", "inactive", "error"}, d \in BOOLEAN}
    \cup {[stage |-> "open", handle |-> TRUE, list |-> None, kernel_driver |-> k,
           detach |-> d, claim |-> TRUE, descriptor |-> c] :
            k \in {"active", "inactive", "error"}, d \in BOOLEAN, c \in Descriptors}

Labels == {None, Some("Tctl\n"), Some("Tdie\n")}

HwmonEntries ==
    {None} \cup {Some([n |-> n, temp1_label |-> l]) : n \in 0..(MaxHwmon - 1), l \in Labels}

RECURSIVE SeqsUpTo(_, _)
SeqsUpTo(S, n) ==
    IF n = 0 THEN {<<>>}
    ELSE LET shorter == SeqsUpTo(S, n - 1)
         IN shorter \cup {Append(q, e) : q \in shorter, e \in S}

DistinctDevices(q) ==
    \A i, j \in 1..Len(q) : (i < j /\ IsSome(q[i]) /\ IsSome(q[j]))
                                => Unwrap(q[i]).n # Unwrap(q[j]).n

HwmonListings ==
    {None} \cup {Some(q) : q \in {r \in SeqsUpTo(HwmonEntries, MaxHwmon) : DistinctDevices(r)}}

FsInputs ==
    {[stage |-> "cpu", hwmon |-> h, thermal_zone0 |-> t, hwmon0_input |-> i] :
        h \in HwmonListings, t \in BOOLEAN, i \in BOOLEAN}

NoFs == [stage |-> "cpu", hwmon |-> None, thermal_zone0 |-> FALSE, hwmon0_input |-> FALSE]

Features == {"nvidia", "amd", "intel"}

GpuInputs ==
    {[stage |-> "gpu", features |-> f, probes |-> p] :
        f \in SUBSET Features, p \in [nvidia : BOOLEAN, amd : BOOLEAN, intel : BOOLEAN]}

\* What the sensors yield during a poll of the control loop.
CpuContents == {Unreadable, Milli(24300)}
GpuReadings ==
    {[nvml |-> None, file |-> Unreadable], [nvml |-> Some(16), file |-> Milli(16000)]}

WriteResults == {"Ok", "Timeout", "NoDevice"}

NoConfig == [cpu_device |-> None, polling_interval |-> 0]
NoCounts == [poll |-> 0, final |-> 0, failed |-> 0, afterStop |-> 0]

(***************************************************************************)
(* main (main.rs).                                                         *)
(***************************************************************************)
Init ==
    /\ pc = "config"
    /\ input = [stage |-> "start"]
    /\ config = NoConfig
    /\ running = TRUE
    /\ handler = FALSE
    /\ device = None
    /\ cpu = None
    /\ gpu = "unset"
    /\ payload = <<>>
    /\ write = None
    /\ sent = NoCounts
    /\ slept = 0
    /\ error = None

\* Lines 41-47: load and validate the settings, or take the defaults; a file
\* that does not deserialize makes main return the error.
LoadConfig ==
    /\ pc = "config"
    /\ \E in \in ConfigInputs :
        /\ input' = in
        /\ IF in.file = "malformed"
           THEN /\ pc' = "failed"
                /\ error' = Some("config")
                /\ config' = config
           ELSE /\ pc' = "open"
                /\ error' = error
                /\ config' = IF in.file = "ok"
                             THEN validated([polling_interval |-> in.polling_interval,
                                             cpu_device |-> in.cpu_device])
                             ELSE ConfigDefault
    /\ UNCHANGED <<running, handler, device, cpu, gpu, payload, write, sent, slept>>

\* Lines 49-50: UsbDevice::open(..)?
Open ==
    /\ pc = "open"
    /\ \E in \in UsbInputs :
        LET r == UsbDevice_open(in) IN
        /\ input' = in
        /\ IF r.ok
           THEN /\ device' = Some([endpoint |-> r.endpoint])
                /\ pc' = "cpu"
                /\ error' = error
           ELSE /\ device' = device
                /\ pc' = "failed"
                /\ error' = Some(r.error)
    /\ UNCHANGED <<config, running, handler, cpu, gpu, payload, write, sent, slept>>

\* Line 51: config.cpu_device.or_else(default_cpu_device)
LocateCpu ==
    /\ pc = "cpu"
    /\ IF IsSome(config.cpu_device)
       THEN /\ input' = NoFs
            /\ cpu' = Some(Unwrap(config.cpu_device).path)
       ELSE \E in \in FsInputs :
            /\ input' = in
            /\ cpu' = default_cpu_device(in)
    /\ pc' = "gpu"
    /\ UNCHANGED <<config, running, handler, device, gpu, payload, write, sent, slept, error>>

\* Line 52
SelectGpu ==
    /\ pc = "gpu"
    /\ \E in \in GpuInputs :
        /\ input' = in
        /\ gpu' = get_available_gpu(in.features, in.probes)
    /\ pc' = "handler"
    /\ UNCHANGED <<config, running, handler, device, cpu, payload, write, sent, slept, error>>

\* Lines 55-59
InstallHandler ==
    /\ pc = "handler"
    /\ handler' = TRUE
    /\ input' = [stage |-> "run"]
    /\ pc' = "loop"
    /\ UNCHANGED <<config, running, device, cpu, gpu, payload, write, sent, slept, error>>

\* Line 57: the handler, run by the signal thread at any moment.
Signal ==
    /\ handler
    /\ pc \notin {"done", "failed"}
    /\ running' = FALSE
    /\ UNCHANGED <<pc, input, config, handler, device, cpu, gpu, payload, write, sent,
                   slept, error>>

\* A loop condition that does not read the flag.
LoopIgnoresFlag(flag) == TRUE

\* Line 62: running.load(SeqCst)
LoopContinues(flag) == flag

LoopCheck ==
    /\ pc = "loop"
    /\ IF LoopContinues(running)
       THEN sent.poll < MaxPolls /\ pc' = "body"
       ELSE pc' = "final"
    /\ UNCHANGED <<input, config, running, handler, device, cpu, gpu, payload, write,
                   sent, slept, error>>

\* UsbDevice::send_payload: the frame, the write, the counts, where it goes on.
send_payload(cpu_temp, gpu_temp, result, final) ==
    /\ payload' = generate_payload(cpu_temp, gpu_temp)
    /\ write' = Some([endpoint |-> WriteEndpoint(device), ok |-> result = "Ok",
                      final |-> final])
    /\ sent' = [poll      |-> sent.poll + (IF final THEN 0 ELSE 1),
                final     |-> sent.final + (IF final THEN 1 ELSE 0),
                failed    |-> sent.failed + (IF result = "Ok" THEN 0 ELSE 1),
                afterStop |-> sent.afterStop + (IF ~final /\ ~running THEN 1 ELSE 0)]

\* Lines 63-66: read both sensors and transmit.
Body ==
    /\ pc = "body"
    /\ \E content \in CpuContents, reading \in GpuReadings, result \in WriteResults :
        LET cpu_temp == IF IsSome(cpu) THEN read_temp(content) ELSE None
            gpu_temp == AvailableGpu_temp(gpu, reading)
        IN /\ send_payload(cpu_temp, gpu_temp, result, FALSE)
           /\ pc' = IF AfterWrite(result) = "returned" THEN "sleep" ELSE "failed"
    /\ UNCHANGED <<input, config, running, handler, device, cpu, gpu, slept, error>>

\* Line 67
Sleep ==
    /\ pc = "sleep"
    /\ slept' = config.polling_interval
    /\ pc' = "loop"
    /\ UNCHANGED <<input, config, running, handler, device, cpu, gpu, payload, write,
                   sent, error>>

\* 0.0
F32Literal0 == F32Zero(0)

\* Lines 71-73: the zero frame, then Ok(()).
Final ==
    /\ pc = "final"
    /\ \E result \in WriteResults :
        /\ send_payload(Some(F32Literal0), Some(F32Literal0), result, TRUE)
        /\ pc' = IF AfterWrite(result) = "returned" THEN "done" ELSE "failed"
    /\ UNCHANGED <<input, config, running, handler, device, cpu, gpu, slept, error>>

Main == LoadConfig \/ Open \/ LocateCpu \/ SelectGpu \/ InstallHandler
        \/ LoopCheck \/ Body \/ Sleep \/ Final

Next == Main \/ Signal

Spec == Init /\ [][Next]_vars

\* The main thread keeps being scheduled: every step of main ends (the write
\* is bounded by its 1000 ms timeout, the sleep by the interval).
FairSpec == Spec /\ WF_vars(Main)

(***************************************************************************)
(* The codec on its own: two sensor contents, read and encoded.            *)
(***************************************************************************)
TenthsInputs == {100 * k : k \in 0..MaxTenths}
OverInputs == {2560000 + 100 * k : k \in 0..MaxOver} \cup {-100 * k : k \in 1..MaxOver}
OtherInputs ==
    {1, 999, 24350, 99999, 100000, 1000000, 2559900, 2559999, 5120000, 16777215,
     -1, -999, -2560000, -16777215}
CodecContents ==
    {Unreadable, Garbage} \cup {Milli(m) : m \in TenthsInputs \cup OverInputs \cup OtherInputs}
CodecFew ==
    {Unreadable, Milli(0), Milli(16000), Milli(24000), Milli(99900), Milli(2560000),
     Milli(-1000)}

CodecInit ==
    /\ pc = "codec"
    /\ \E c \in CodecContents, g \in CodecContents :
        /\ (c \in CodecFew \/ g \in CodecFew)
        /\ input = [stage |-> "codec", cpu |-> c, gpu |-> g]
    /\ config = NoConfig
    /\ running = TRUE
    /\ handler = FALSE
    /\ device = None
    /\ cpu = None
    /\ gpu = "unset"
    /\ payload = <<>>
    /\ write = None
    /\ sent = NoCounts
    /\ slept = 0
    /\ error = None

CodecEncode ==
    /\ pc = "codec"
    /\ payload' = generate_payload(read_temp(input.cpu), read_temp(input.gpu))
    /\ pc' = "encoded"
    /\ UNCHANGED <<input, config, running, handler, device, cpu, gpu, write, sent,
                   slept, error>>

CodecSpec == CodecInit /\ [][CodecEncode]_vars

(***************************************************************************)
(* Properties.                                                             *)
(***************************************************************************)
ZeroFrame == <<85, 170, 1, 1, 6, 0, 0, 0, 0, 0, 0, 7>>

\* What the termination claim says of every state: at most one poll frame is
\* written after the flag is set, the loop is left only with the flag set,
\* and once main is done exactly one final frame was written, it is the
\* zero frame and it is the last write.
TerminationSafe ==
    /\ sent.afterStop <= 1
    /\ sent.final <= 1
    /\ (pc \in {"final", "done"} => ~running)
    /\ (sent.final = 1 => pc = "done")
    /\ (pc = "done" => /\ sent.final = 1
                       /\ payload = ZeroFrame
                       /\ Unwrap(write).final)

\* C1: whatever the interleaving of the signal handler with main, after the
\* flag is set at most one more poll frame is written (that of the cycle
\* whose check had passed), then exactly one final frame, equal to
\* [85,170,1,1,6,0,0,0,0,0,0,7], is written and main exits; nothing is
\* written after the final frame.
C1_Termination ==
    /\ []TerminationSafe
    /\ ((~running) ~> (pc = "done"))

\* The flag was set during a cycle, that cycle's frame was still written, and
\* main then wrote the final frame and exited.
C1_Witness == pc = "done" /\ sent.afterStop = 1 /\ sent.poll = MaxPolls

\* C2: every frame built has 12 bytes, starts with 85,170,1,1,6 and ends
\* with the sum of its first 11 bytes modulo 256.
C2_FrameInvariant ==
    payload # <<>> =>
        /\ Len(payload) = 12
        /\ \A i \in 1..12 : payload[i] \in 0..255
        /\ SubSeq(payload, 1, 5) = <<85, 170, 1, 1, 6>>
        /\ payload[12] = (payload[1] + payload[2] + payload[3] + payload[4]
                          + payload[5] + payload[6] + payload[7] + payload[8]
                          + payload[9] + payload[10] + payload[11]) % 256

\* A frame with one reading present and one absent, whose byte sum wraps.
C2_Witness ==
    /\ pc = "encoded"
    /\ input.cpu = Milli(24000) /\ input.gpu = Unreadable
    /\ payload[12] = 215

\* A sensor content that yields no reading.
Absent(content) == ~IsSome(content) \/ ~Unwrap(content).num

\* A sensor content of millidegrees.
Present(content) == IsSome(content) /\ Unwrap(content).num
MilliOf(content) == Unwrap(content).val

\* A reading of 0.0 .. 99.9 degrees in steps of 0.1.
TenthInRange(content) ==
    Present(content) /\ MilliOf(content) \in 0..99999 /\ MilliOf(content) % 100 = 0

\* Tens, units and tenths digit of m millidegrees.
Digits(m) == <<m \div 10000, (m \div 1000) % 10, (m \div 100) % 10>>

CpuSlot == SubSeq(payload, 6, 8)
GpuSlot == SubSeq(payload, 9, 11)

\* C3: a reading of 0.0 .. 99.9 in steps of 0.1 is encoded as its tens, units
\* and tenths digit, an absent one as 238,238,238; the CPU triple is in
\* bytes 5-7 and the GPU triple in bytes 8-10 whatever the other reading is;
\* the three frames of the specification come out as written there.
C3_EncodingMatchesReference ==
    pc = "encoded" =>
        /\ TenthInRange(input.cpu) => CpuSlot = Digits(MilliOf(input.cpu))
        /\ TenthInRange(input.gpu) => GpuSlot = Digits(MilliOf(input.gpu))
        /\ Absent(input.cpu) => CpuSlot = <<238, 238, 238>>
        /\ Absent(input.gpu) => GpuSlot = <<238, 238, 238>>
        /\ (input.cpu = Milli(24000) /\ input.gpu = Milli(16000))
              => payload = <<85, 170, 1, 1, 6, 2, 4, 0, 1, 6, 0, 20>>
        /\ (input.cpu = Milli(24000) /\ Absent(input.gpu))
              => payload = <<85, 170, 1, 1, 6, 2, 4, 0, 238, 238, 238, 215>>

\* 24.0 and 16.0 encoded together.
C3_Witness ==
    /\ pc = "encoded"
    /\ input.cpu = Milli(24000) /\ input.gpu = Milli(16000)
    /\ payload[12] = 20

\* A present reading whose tens do not fit a byte: t >= 2560 or t < 0.
OutOfRange(content) ==
    Present(content) /\ (MilliOf(content) >= 2560000 \/ MilliOf(content) < 0)

\* The three components of a reading, each truncated and reduced modulo 256.
WrappedTriple(content) ==
    LET t == Unwrap(read_temp(content))
    IN <<F32ToU8Wrapping(F32DivInt(t, 10)),
         F32ToU8Wrapping(F32RemInt(t, 10)),
         F32ToU8Wrapping(F32RemInt(F32MulInt(t, 10), 10))>>

\* C4 as stated: an out-of-range reading is encoded byte by byte as the
\* truncated value modulo 256.
C4_WrapsAround ==
    pc = "encoded" =>
        /\ OutOfRange(input.cpu) => CpuSlot = WrappedTriple(input.cpu)
        /\ OutOfRange(input.gpu) => GpuSlot = WrappedTriple(input.gpu)

SaturatedOk(content, slot) ==
    /\ MilliOf(content) >= 2560000 =>
          (slot[1] = 255 /\ slot[2] \in 0..9 /\ slot[3] \in 0..9)
    /\ MilliOf(content) < 0 => slot = <<0, 0, 0>>

\* C4, amended: an out-of-range reading saturates: the first byte is 255
\* when t >= 2560 (the other two stay within 0..9), and all three bytes are
\* 0 when t is negative.
C4_Saturates ==
    pc = "encoded" =>
        /\ OutOfRange(input.cpu) => SaturatedOk(input.cpu, CpuSlot)
        /\ OutOfRange(input.gpu) => SaturatedOk(input.gpu, GpuSlot)

\* 2560.0 and -1.0 encoded together.
C4_Witness ==
    /\ pc = "encoded"
    /\ input.cpu = Milli(2560000) /\ input.gpu = Milli(-1000)
    /\ CpuSlot = <<255, 0, 0>> /\ GpuSlot = <<0, 0, 0>>

\* The listing shows a device with the vendor/product pair.
PairListed(list) == IsSome(list) /\ Dev(VENDOR_ID, PRODUCT_ID) \in Unwrap(list)

\* C5: open fails with "not found" when no device with the pair is listed,
\* with "permission denied" when one is listed but none was opened, with
\* "claiming interface" when the claim failed; a failed detach alone is no
\* error; a failed startup writes no frame at all.
C5_StartupFailures ==
    /\ input.stage = "open" =>
        /\ (~input.handle /\ ~PairListed(input.list))
              => (pc = "failed" /\ error = Some("USB device not found"))
        /\ (~input.handle /\ PairListed(input.list))
              => (pc = "failed" /\ error = Some("Permission denied accessing USB device"))
        /\ (input.handle /\ ~input.claim)
              => (pc = "failed" /\ error = Some("Error claiming interface"))
        /\ (input.handle /\ input.claim) => (pc = "cpu" /\ error = None)
    /\ (IsSome(error) <=> pc = "failed")
    /\ pc = "failed" => (write = None /\ payload = <<>> /\ sent = NoCounts)

\* The pair is listed, nothing was opened: permission denied, nothing written.
C5_Witness ==
    /\ pc = "failed"
    /\ input.stage = "open" /\ ~input.handle /\ PairListed(input.list)
    /\ error = Some("Permission denied accessing USB device")

\* What C6 says of every step of the loop.
LoopStepsGoOn ==
    /\ (pc = "body" /\ pc' # pc) =>
          /\ pc' = "sleep"
          /\ sent'.poll = sent.poll + 1
          /\ IsSome(write') /\ ~Unwrap(write').final
          /\ UNCHANGED <<config, running, handler, device, cpu, gpu, error>>
    /\ (pc = "sleep" /\ pc' # pc) => pc' = "loop"
    /\ (pc = "loop" /\ running /\ pc' # pc) => pc' = "body"
    /\ (pc = "final" /\ pc' # pc) => (pc' = "done" /\ sent'.final = 1)

\* C6: a write of the loop, failed or not, leaves main in the loop with its
\* state as it was; the sleep is followed by the check, the check with the
\* flag unset by a fresh poll and write; the final write is made whatever
\* failed before, and main never ends with an error once it has written.
C6_WriteFailureSwallowed ==
    /\ [][LoopStepsGoOn]_vars
    /\ [](pc = "failed" => sent = NoCounts)

\* The first poll's write failed, a second poll was made and written.
C6_Witness ==
    /\ sent.poll = 2 /\ sent.failed = 1
    /\ IsSome(write) /\ Unwrap(write).ok /\ ~Unwrap(write).final

\* Address a is that of the first Interrupt OUT endpoint of configuration c,
\* in the order interface, alternate setting, endpoint.
FirstInterruptOut(c, a) ==
    \E i \in 1..Len(c) : \E j \in 1..Len(c[i]) : \E k \in 1..Len(c[i][j]) :
        /\ IsInterruptOut(c[i][j][k]) /\ c[i][j][k].address = a
        /\ \A i2 \in 1..Len(c) : \A j2 \in 1..Len(c[i2]) : \A k2 \in 1..Len(c[i2][j2]) :
              IsInterruptOut(c[i2][j2][k2]) =>
                 \/ i2 > i
                 \/ (i2 = i /\ j2 > j)
                 \/ (i2 = i /\ j2 = j /\ k2 >= k)

NoInterruptOut(c) ==
    \A i \in 1..Len(c) : \A j \in 1..Len(c[i]) : \A k \in 1..Len(c[i][j]) :
        ~IsInterruptOut(c[i][j][k])

\* C7: the endpoint is set by open alone, to the address of the first
\* Interrupt OUT endpoint of the configuration descriptor, or to 3 when the
\* descriptor is unreadable or has none; it never changes, and every write
\* goes to it.
C7_EndpointCached ==
    /\ []((input.stage = "open" /\ pc = "cpu") =>
            LET a == Unwrap(device).endpoint IN
            IF IsSome(input.descriptor) /\ ~NoInterruptOut(Unwrap(input.descriptor))
            THEN FirstInterruptOut(Unwrap(input.descriptor), a)
            ELSE a = 3)
    /\ [](IsSome(write) => Unwrap(write).endpoint = Unwrap(device).endpoint)
    /\ [][(device' # device => pc = "open") /\ (IsSome(device) => device' = device)]_vars

\* Poll frames and the final frame all went to the discovered endpoint 4.
C7_Witness ==
    /\ pc = "done" /\ sent.poll = 2
    /\ Unwrap(write).endpoint = 4 /\ Unwrap(device).endpoint = 4

\* The devices of the listing whose trimmed temp1_label is "Tctl".
TctlDevices(fs) ==
    IF ~IsSome(fs.hwmon) THEN {}
    ELSE {Unwrap(e).n : e \in {x \in {Unwrap(fs.hwmon)[i] : i \in 1..Len(Unwrap(fs.hwmon))} :
                                 /\ IsSome(x)
                                 /\ Unwrap(x).temp1_label \in {Some("Tctl\n"), Some("Tctl")}}}

\* C8: default_cpu_device gives the temp1_input of a Tctl device if there is
\* one, otherwise thermal_zone0 if readable, otherwise hwmon0/temp1_input if
\* readable, otherwise nothing, whatever the state of the sensor files.
C8_LocatorPriority ==
    (input.stage = "cpu" /\ ~IsSome(config.cpu_device)) =>
        IF TctlDevices(input) # {}
        THEN \E n \in TctlDevices(input) : cpu = Some(Path(HwmonDir, n, "temp1_input"))
        ELSE IF input.thermal_zone0 THEN cpu = Some(ThermalZone0)
        ELSE IF input.hwmon0_input THEN cpu = Some(Hwmon0Input)
        ELSE cpu = None

\* The probe of a backend is compiled in and succeeds.
ProbeOk(in, f) == f \in in.features /\ in.probes[f]

\* C9: the backend is that of the first succeeding probe in the order
\* Nvidia, AMD, Intel, Unknown when none succeeds; once selected it never
\* changes; with Unknown every poll frame carries 238,238,238 for the GPU
\* and main has no error.
C9_GpuSelection ==
    /\ [](input.stage = "gpu" =>
            /\ gpu \in {"Nvidia", "Amd", "Intel", "Unknown"}
            /\ (gpu = "Nvidia") <=> ProbeOk(input, "nvidia")
            /\ (gpu = "Amd") <=> (~ProbeOk(input, "nvidia") /\ ProbeOk(input, "amd"))
            /\ (gpu = "Intel") <=> (/\ ~ProbeOk(input, "nvidia")
                                    /\ ~ProbeOk(input, "amd")
                                    /\ ProbeOk(input, "intel"))
            /\ (gpu = "Unknown") <=> (\A f \in Features : ~ProbeOk(input, f)))
    /\ []((gpu = "Unknown" /\ IsSome(write) /\ ~Unwrap(write).final)
            => (GpuSlot = <<238, 238, 238>> /\ error = None))
    /\ [][(gpu' # gpu => pc = "gpu") /\ (gpu # "unset" => gpu' = gpu)]_vars

\* No probe succeeded and two poll frames were written.
C9_Witness ==
    /\ gpu = "Unknown" /\ sent.poll = 2 /\ pc = "sleep"
    /\ GpuSlot = <<238, 238, 238>>

\* C10: a loaded polling_interval v becomes 100 below 100, 60000 above
\* 60000 and stays v in between; the defaults give 1000; every sleep of the
\* loop lasts between 100 and 60000.
C10_IntervalClamped ==
    /\ (input.stage = "config" /\ input.file = "ok") =>
          LET v == input.polling_interval IN
          /\ v < 100 => config.polling_interval = 100
          /\ v > 60000 => config.polling_interval = 60000
          /\ (100 <= v /\ v <= 60000) => config.polling_interval = v
    /\ (input.stage = "config" /\ input.file = "missing") => config.polling_interval = 1000
    /\ pc \notin {"config", "failed"} =>
          (100 <= config.polling_interval /\ config.polling_interval <= 60000)
    /\ slept # 0 => (slept = config.polling_interval /\ 100 <= slept /\ slept <= 60000)

\* An interval above the maximum was loaded and lowered to 60000.
C10_Witness ==
    /\ input.stage = "config" /\ input.file = "ok"
    /\ input.polling_interval = 100000 /\ config.polling_interval = 60000

SentinelTriple == <<238, 238, 238>>

\* What C11 says of one slot of a frame, given the sensor content read.
SlotUnambiguous(content, slot) ==
    /\ Present(content) => (slot[2] <= 9 /\ slot[3] <= 9 /\ slot # SentinelTriple)
    /\ (slot = SentinelTriple) <=> Absent(content)

\* C11: a present reading, in range or not, has its second and third byte
\* at most 9 and so never encodes to 238,238,238; a slot of a frame holds
\* 238,238,238 exactly when its reading was absent; a frame carrying a
\* sentinel is never the zero frame.
C11_SentinelUnambiguous ==
    pc = "encoded" =>
        /\ SlotUnambiguous(input.cpu, CpuSlot)
        /\ SlotUnambiguous(input.gpu, GpuSlot)
        /\ (Absent(input.cpu) \/ Absent(input.gpu)) => payload # ZeroFrame

\* An out-of-range reading beside an absent one: bytes 255,0,0 and the sentinel.
C11_Witness ==
    /\ pc = "encoded"
    /\ input.cpu = Milli(2560000) /\ Absent(input.gpu)
    /\ CpuSlot = <<255, 0, 0>> /\ GpuSlot = SentinelTriple

====
